---- MODULE Spec2Model ----
(***************************************************************************)
(* Model of ocr_module/pdf_analyzer.py (class PDFAnalyzer): the question   *)
(* region detector of the exam analyser.                                   *)
(*                                                                         *)
(* A rectangle is the tuple <<x, y, w, h>> the code uses.  The pure        *)
(* helpers (_remove_duplicate_boxes, _cluster_text_boxes, the contour      *)
(* filter of _detect_questions_traditional) are operators computed as the  *)
(* code computes them; the methods are actions.  Floating point values of  *)
(* the code are dyadic rationals here, kept exactly as integer pairs.      *)
(***************************************************************************)
EXTENDS Integers, Sequences, FiniteSets, TLC

VARIABLES
    pc,              \* position of the running call
    ocr_available,   \* OCR_AVAILABLE and self.ocr_processor (set at import / construction)
    image_paths,     \* what pdf_to_images returned: one entry per page
    i,               \* analyze_pdf: 1-based index of the page being processed
    path_taken,      \* detect_question_boundaries: which return statement was taken
    all_boxes,       \* _detect_questions_traditional: candidates of the four methods
    boxes_in,        \* _remove_duplicate_boxes: the argument as the caller passed it
    boxes,           \* _remove_duplicate_boxes: the caller's list after the call
    unique_boxes,    \* _remove_duplicate_boxes: the returned list
    text_boxes_in,   \* _cluster_text_boxes: the argument as the caller passed it
    text_boxes,      \* _cluster_text_boxes: the caller's list after the call
    image_size,      \* <<width, height>> of the image being processed
    clusters,        \* _cluster_text_boxes: the clusters formed
    question_boxes,  \* rectangles returned for the page
    question_images, \* artifact paths returned by extract_questions
    results,         \* analyze_pdf: the result dictionary
    overlap_threshold \* _remove_duplicate_boxes: the argument, as the fraction <<num, den>>

vars == <<pc, ocr_available, image_paths, i, path_taken, all_boxes, boxes_in, boxes,
          unique_boxes, text_boxes_in, text_boxes, image_size, clusters,
          question_boxes, question_images, results, overlap_threshold>>

-----------------------------------------------------------------------------
(* Bounds of the explored inputs *)

MaxBoxes == 3
MaxFrags == 3
MaxPages == 2
MaxPaths == 3

-----------------------------------------------------------------------------
(* Generic helpers *)

Min2(a, b) == IF a <= b THEN a ELSE b
Max2(a, b) == IF a >= b THEN a ELSE b
Range(s) == {s[k] : k \in 1..Len(s)}
SeqsUpTo(S, n) == UNION {[1..k -> S] : k \in 0..n}
MinOf(S) == CHOOSE m \in S : \A e \in S : m <= e
MaxOf(S) == CHOOSE m \in S : \A e \in S : m >= e
\* every reordering of the sequence s
PermutationsOf(s) ==
    {[k \in 1..Len(s) |-> s[p[k]]] :
        p \in {q \in [1..Len(s) -> 1..Len(s)] :
                 \A a, b \in 1..Len(s) : a # b => q[a] # q[b]}}

X(box) == box[1]
Y(box) == box[2]
W(box) == box[3]
H(box) == box[4]
Area(box) == box[3] * box[4]

-----------------------------------------------------------------------------
(* _remove_duplicate_boxes *)

\* list.sort is stable; with reverse=True equal keys keep their first-seen order.
\* Insert b behind every element whose area is >= its own.
RECURSIVE InsertByArea(_, _)
InsertByArea(sorted, b) ==
    IF sorted = <<>> THEN <<b>>
    ELSE IF Area(Head(sorted)) >= Area(b)
         THEN <<Head(sorted)>> \o InsertByArea(Tail(sorted), b)
         ELSE <<b>> \o sorted

RECURSIVE SortByAreaDescFrom(_, _)
SortByAreaDescFrom(sorted, rest) ==
    IF rest = <<>> THEN sorted
    ELSE SortByAreaDescFrom(InsertByArea(sorted, Head(rest)), Tail(rest))

\* variant: the list visited in the order given
NoSort(bs) == bs
\* line 313
SortByAreaDesc(bs) == SortByAreaDescFrom(<<>>, bs)

\* variant: rectangles that only touch, or have no area, also count as intersecting
IntersectsOrTouches(b1, b2) ==
    /\ Max2(X(b1), X(b2)) <= Min2(X(b1) + W(b1), X(b2) + W(b2))
    /\ Max2(Y(b1), Y(b2)) <= Min2(Y(b1) + H(b1), Y(b2) + H(b2))
\* lines 326-331: the intersection rectangle and its area
Intersects(b1, b2) ==
    /\ Max2(X(b1), X(b2)) < Min2(X(b1) + W(b1), X(b2) + W(b2))
    /\ Max2(Y(b1), Y(b2)) < Min2(Y(b1) + H(b1), Y(b2) + H(b2))
Intersection(b1, b2) ==
    (Min2(X(b1) + W(b1), X(b2) + W(b2)) - Max2(X(b1), X(b2)))
  * (Min2(Y(b1) + H(b1), Y(b2) + H(b2)) - Max2(Y(b1), Y(b2)))

\* variant: the ratio taken over the larger rectangle
OverlapsTooMuchOfLarger(b1, b2) ==
    /\ Intersects(b1, b2)
    /\ Intersection(b1, b2) * overlap_threshold[2]
          > overlap_threshold[1] * Max2(Area(b1), Area(b2))
\* line 335: intersection / min_area > overlap_threshold (0.5 unless the caller gives
\* another).  min_area > 0 whenever Intersects holds for width, height >= 0.
OverlapsTooMuch(b1, b2) ==
    /\ Intersects(b1, b2)
    /\ Intersection(b1, b2) * overlap_threshold[2]
          > overlap_threshold[1] * Min2(Area(b1), Area(b2))

\* variant: the candidate is compared with the last accepted rectangle only
DuplicateOfLastAccepted(box, uniq) ==
    uniq # <<>> /\ OverlapsTooMuch(box, uniq[Len(uniq)])
\* lines 318-337: the inner loop over unique_boxes
IsDuplicate(box, uniq) == \E k \in 1..Len(uniq) : OverlapsTooMuch(box, uniq[k])

\* variant: a duplicate is merged into the accepted rectangle it overlaps
UnionBox(a, b) ==
    <<Min2(X(a), X(b)), Min2(Y(a), Y(b)),
      Max2(X(a) + W(a), X(b) + W(b)) - Min2(X(a), X(b)),
      Max2(Y(a) + H(a), Y(b) + H(b)) - Min2(Y(a), Y(b))>>
RECURSIVE GreedyMerging(_, _)
GreedyMerging(uniq, rest) ==
    IF rest = <<>> THEN uniq
    ELSE IF IsDuplicate(Head(rest), uniq)
    THEN LET k == CHOOSE m \in 1..Len(uniq) :
                    /\ OverlapsTooMuch(Head(rest), uniq[m])
                    /\ \A j \in 1..(m - 1) : ~OverlapsTooMuch(Head(rest), uniq[j])
         IN  GreedyMerging([uniq EXCEPT ![k] = UnionBox(@, Head(rest))], Tail(rest))
    ELSE GreedyMerging(Append(uniq, Head(rest)), Tail(rest))
\* lines 315-340: the outer loop
RECURSIVE Greedy(_, _)
Greedy(uniq, rest) ==
    IF rest = <<>> THEN uniq
    ELSE Greedy(IF IsDuplicate(Head(rest), uniq) THEN uniq ELSE Append(uniq, Head(rest)),
                Tail(rest))

\* line 335 divides by min_area: ZeroDivisionError when it is 0
DividesByZero(b1, b2) == Intersects(b1, b2) /\ Min2(Area(b1), Area(b2)) = 0

\* some comparison of the loops of lines 315-340 divides by zero: the candidate meets
\* such an accepted rectangle before the inner loop breaks
RECURSIVE GreedyRaises(_, _)
GreedyRaises(uniq, rest) ==
    IF rest = <<>> THEN FALSE
    ELSE \/ \E k \in 1..Len(uniq) :
               /\ DividesByZero(Head(rest), uniq[k])
               /\ \A j \in 1..(k - 1) : ~OverlapsTooMuch(Head(rest), uniq[j])
         \/ GreedyRaises(IF IsDuplicate(Head(rest), uniq) THEN uniq
                         ELSE Append(uniq, Head(rest)),
                         Tail(rest))

RemoveDuplicateBoxesRaises(bs) == Len(bs) > 1 /\ GreedyRaises(<<>>, SortByAreaDesc(bs))

\* the caller's list after the call: sorted in place unless returned early (line 309)
BoxesAfterDedup(bs) == IF Len(bs) <= 1 THEN bs ELSE SortByAreaDesc(bs)
RemoveDuplicateBoxes(bs) == IF Len(bs) <= 1 THEN bs ELSE Greedy(<<>>, SortByAreaDesc(bs))

-----------------------------------------------------------------------------
(* _cluster_text_boxes *)

margin_x == 20
margin_y == 20
min_region_w == 100
min_region_h == 50

\* list.sort(key=box[1]) is stable: insert b behind every element whose y is <= its own
RECURSIVE InsertByY(_, _)
InsertByY(sorted, b) ==
    IF sorted = <<>> THEN <<b>>
    ELSE IF Y(Head(sorted)) <= Y(b)
         THEN <<Head(sorted)>> \o InsertByY(Tail(sorted), b)
         ELSE <<b>> \o sorted

RECURSIVE SortByYFrom(_, _)
SortByYFrom(sorted, rest) ==
    IF rest = <<>> THEN sorted
    ELSE SortByYFrom(InsertByY(sorted, Head(rest)), Tail(rest))

\* variant: the list is walked in the order given
UnsortedByY(bs) == bs
\* line 176
SortByY(bs) == SortByYFrom(<<>>, bs)

\* line 188: curr_box[1] - (prev_box[1] + prev_box[3])
VerticalDistance(prev_box, curr_box) == Y(curr_box) - (Y(prev_box) + H(prev_box))

\* variant: the factor 1.5 left out
GapNoFactor(dist, lh_num, lh_den) == dist * lh_den > lh_num
\* line 194: vertical_distance > line_height * 1.5, line_height = lh_num / lh_den
GapSplits(dist, lh_num, lh_den) == 2 * dist * lh_den > 3 * lh_num

\* variant: the gap is compared with the estimate before the current box is averaged in
RECURSIVE ClusterLoopLateUpdate(_, _, _)
ClusterLoopLateUpdate(sorted, k, st) ==
    IF k > Len(sorted) THEN Append(st.clusters, st.current)
    ELSE LET prev_box == st.current[Len(st.current)]
             curr_box == sorted[k]
             dist == VerticalDistance(prev_box, curr_box)
             num == st.num + H(curr_box) * st.den
             den == 2 * st.den
         IN  IF GapSplits(dist, st.num, st.den)
             THEN ClusterLoopLateUpdate(sorted, k + 1,
                    [clusters |-> Append(st.clusters, st.current),
                     current |-> <<curr_box>>, num |-> num, den |-> den])
             ELSE ClusterLoopLateUpdate(sorted, k + 1,
                    [clusters |-> st.clusters,
                     current |-> Append(st.current, curr_box), num |-> num, den |-> den])

\* lines 183-204.  st is the loop state: the closed clusters, the current cluster and
\* the running line_height as the fraction num / den.
RECURSIVE ClusterLoop(_, _, _)
ClusterLoop(sorted, k, st) ==
    IF k > Len(sorted) THEN Append(st.clusters, st.current)
    ELSE LET prev_box == st.current[Len(st.current)]
             curr_box == sorted[k]
             dist == VerticalDistance(prev_box, curr_box)
             num == st.num + H(curr_box) * st.den
             den == 2 * st.den
         IN  IF GapSplits(dist, num, den)
             THEN ClusterLoop(sorted, k + 1,
                    [clusters |-> Append(st.clusters, st.current),
                     current |-> <<curr_box>>, num |-> num, den |-> den])
             ELSE ClusterLoop(sorted, k + 1,
                    [clusters |-> st.clusters,
                     current |-> Append(st.current, curr_box), num |-> num, den |-> den])

\* variant: the cluster still open when the loop ends is not appended (line 204 missing)
ClustersOfWithoutLast(tbs) ==
    IF tbs = <<>> THEN <<>>
    ELSE LET sorted == SortByY(tbs)
             all == ClusterLoop(sorted, 2,
                      [clusters |-> <<>>, current |-> <<sorted[1]>>,
                       num |-> H(sorted[1]), den |-> 1])
         IN  SubSeq(all, 1, Len(all) - 1)
\* lines 172-204: the clusters of a list of text boxes (none for an empty list)
ClustersOf(tbs) ==
    IF tbs = <<>> THEN <<>>
    ELSE LET sorted == SortByY(tbs)
         IN  ClusterLoop(sorted, 2,
                [clusters |-> <<>>, current |-> <<sorted[1]>>,
                 num |-> H(sorted[1]), den |-> 1])

\* variant: the margins added without clamping
ClusterBoxUnclamped(cluster, width, height) ==
    LET x_min == MinOf({X(b) : b \in Range(cluster)}) - margin_x
        y_min == MinOf({Y(b) : b \in Range(cluster)}) - margin_y
        x_max == MaxOf({X(b) + W(b) : b \in Range(cluster)}) + margin_x
        y_max == MaxOf({Y(b) + H(b) : b \in Range(cluster)}) + margin_y
    IN  <<x_min, y_min, x_max - x_min, y_max - y_min>>
\* lines 210-222: union of the members, widened by the margins, clamped to the image
ClusterBox(cluster, width, height) ==
    LET x_min == Max2(0, MinOf({X(b) : b \in Range(cluster)}) - margin_x)
        y_min == Max2(0, MinOf({Y(b) : b \in Range(cluster)}) - margin_y)
        x_max == Min2(width, MaxOf({X(b) + W(b) : b \in Range(cluster)}) + margin_x)
        y_max == Min2(height, MaxOf({Y(b) + H(b) : b \in Range(cluster)}) + margin_y)
    IN  <<x_min, y_min, x_max - x_min, y_max - y_min>>

\* variant: a region of exactly the minimum width or height is also emitted
RegionAtLeastMinimum(box) == W(box) >= min_region_w /\ H(box) >= min_region_h
\* line 225
RegionLargeEnough(box) == W(box) > min_region_w /\ H(box) > min_region_h

\* lines 207-226
RECURSIVE RegionsOf(_, _, _)
RegionsOf(cls, width, height) ==
    IF cls = <<>> THEN <<>>
    ELSE LET box == ClusterBox(Head(cls), width, height)
         IN  (IF Len(Head(cls)) >= 1 /\ RegionLargeEnough(box) THEN <<box>> ELSE <<>>)
             \o RegionsOf(Tail(cls), width, height)

TextBoxesAfterCluster(tbs) == SortByY(tbs)
ClusterTextBoxes(tbs, width, height) == RegionsOf(ClustersOf(tbs), width, height)

-----------------------------------------------------------------------------
(* _detect_questions_traditional: the contour filter *)

min_area == 3000
min_w == 50
min_h == 30

\* A contour is [area |-> cv2.contourArea, rect |-> cv2.boundingRect].
\* variant: the floor itself accepted
AreaAtLeastFloor(c) == c.area >= min_area
\* line 271
AreaAboveFloor(c) == c.area > min_area

\* lines 271-281; w < width * 0.9, h < height * 0.8 and 0.3 < w / h < 10.0 in tenths

ContourPasses(c, width, height) ==
    /\ AreaAboveFloor(c)
    /\ W(c.rect) > min_w
    /\ H(c.rect) > min_h
    /\ 10 * W(c.rect) < 9 * width
    /\ 10 * H(c.rect) < 8 * height
    /\ 10 * W(c.rect) > 3 * H(c.rect)
    /\ W(c.rect) < 10 * H(c.rect)

RECURSIVE FilterContours(_, _, _)
FilterContours(contours, width, height) ==
    IF contours = <<>> THEN <<>>
    ELSE (IF ContourPasses(Head(contours), width, height)
          THEN <<Head(contours).rect>> ELSE <<>>)
         \o FilterContours(Tail(contours), width, height)

\* variant: the rectangles filtered before the exception are kept
MethodBoxesKeptOnRaise(method, width, height) ==
    FilterContours(method.contours, width, height)
\* One pass of the loop at line 255 for a threshold method
\* [raises |-> the try body raised, contours |-> what cv2.findContours found]:
\* all_boxes.extend is the last statement of the try body, so a method that raises
\* anywhere adds nothing.
MethodBoxes(method, width, height) ==
    IF method.raises THEN <<>> ELSE FilterContours(method.contours, width, height)

\* lines 253-287: the four methods in order
AllBoxes(methods, width, height) ==
    MethodBoxes(methods[1], width, height) \o MethodBoxes(methods[2], width, height)
    \o MethodBoxes(methods[3], width, height) \o MethodBoxes(methods[4], width, height)

\* variant: the sort at line 293 left out
NoReadingOrder(bs) == bs
\* line 293: the sort is by y only and stable
ReadingOrder(bs) == SortByY(bs)
\* lines 289-296
DetectQuestionsTraditional(page) ==
    ReadingOrder(RemoveDuplicateBoxes(AllBoxes(page.methods, page.size[1], page.size[2])))

-----------------------------------------------------------------------------
(* detect_question_boundaries: the text boxes handed to the clusterer *)

\* A fragment is [box |-> four points, text |-> sequence of characters,
\* score |-> confidence in hundredths].
\* lines 143-147: the axis-aligned bounding rectangle of the four points
BoundingRect(points) ==
    LET xs == {points[k][1] : k \in 1..Len(points)}
        ys == {points[k][2] : k \in 1..Len(points)}
    IN  <<MinOf(xs), MinOf(ys), MaxOf(xs) - MinOf(xs), MaxOf(ys) - MinOf(ys)>>

\* text.strip(): drop the leading and the trailing whitespace
Whitespace == {" ", "\t", "\n", "\r"}
RECURSIVE LStrip(_)
LStrip(t) == IF t # <<>> /\ Head(t) \in Whitespace THEN LStrip(Tail(t)) ELSE t
RECURSIVE RStrip(_)
RStrip(t) ==
    IF t # <<>> /\ t[Len(t)] \in Whitespace THEN RStrip(SubSeq(t, 1, Len(t) - 1)) ELSE t
Strip(t) == RStrip(LStrip(t))

\* variant: a score of exactly 0.5 is also accepted
EligibleFromHalf(f) == f.score >= 50 /\ Len(Strip(f.text)) > 0
\* line 141: score > 0.5 and len(text.strip()) > 0
Eligible(f) == f.score > 50 /\ Len(Strip(f.text)) > 0

RECURSIVE TextBoxesOf(_)
TextBoxesOf(fragments) ==
    IF fragments = <<>> THEN <<>>
    ELSE (IF Eligible(Head(fragments)) THEN <<BoundingRect(Head(fragments).box)>> ELSE <<>>)
         \o TextBoxesOf(Tail(fragments))

\* variant: an empty text_boxes list also falls through to line 158
AssistedOnlyWithTextBoxes(available, page) ==
    available /\ page.ocr = "ok" /\ TextBoxesOf(page.fragments) # <<>>
\* lines 127-155: the result of the clusterer is returned when a processor is
\* configured and process_image returns; an exception falls through to line 158
TakesAssistedPath(available, page) == available /\ page.ocr = "ok"

-----------------------------------------------------------------------------
(* extract_questions *)

\* decimal digits of a natural number, as str.format writes them
RECURSIVE Digits(_)
Digits(n) ==
    LET digit == <<"0", "1", "2", "3", "4", "5", "6", "7", "8", "9">>
    IN  IF n < 10 THEN <<digit[n + 1]>> ELSE Digits(n \div 10) \o <<digit[(n % 10) + 1]>>

\* variant: the page number left out of the file name
QuestionPathWithoutPage(page_number, number) ==
    <<"extracted_questions/", "question_">> \o Digits(number) \o <<".png">>
\* line 376: os.path.join(questions_dir, f"page_{page_number}_question_{i+1}.png")
QuestionPath(page_number, number) ==
    <<"extracted_questions/", "page_">> \o Digits(page_number)
    \o <<"_question_">> \o Digits(number) \o <<".png">>

\* line 373: image[y:y+h, x:x+w]; numpy clips the slice to the image, and
\* cv2.imwrite (line 377) raises on an empty crop
CropEmpty(box, size) ==
    \/ Min2(X(box) + W(box), size[1]) <= Max2(X(box), 0)
    \/ Min2(Y(box) + H(box), size[2]) <= Max2(Y(box), 0)

ExtractRaises(page, qboxes) ==
    \/ page.write_raises
    \/ \E k \in 1..Len(qboxes) : CropEmpty(qboxes[k], page.size)

\* variant: the whole page is written as one more artifact
ExtractedPathsAndPage(qboxes, page_number) ==
    [k \in 1..(Len(qboxes) + 1) |-> QuestionPath(page_number, k)]
\* lines 368-383: one path per box, in list order
ExtractedPaths(qboxes, page_number) ==
    [k \in 1..Len(qboxes) |-> QuestionPath(page_number, k)]

-----------------------------------------------------------------------------
(* Inputs *)

\* rectangles handed to _remove_duplicate_boxes
DedupPool ==
    { <<10, 10, 200, 100>>,    \* the larger rectangle of the suppression scenario
      <<15, 15, 190, 90>>,     \* inside it
      <<20, 10, 200, 100>>,    \* same area as the first, overlapping it
      <<90, 10, 200, 90>>,     \* overlaps the first by 0.6 of its own area
      <<220, 10, 60, 80>>,     \* inside the previous one, clear of the first
      <<400, 10, 100, 60>>,    \* clear of all others
      <<10, 60, 200, 100>>,    \* overlaps the first by exactly 0.5
      <<50, 50, 0, 40>>,       \* no width, inside the first
      <<20, 30, 50, 0>> }      \* no height, inside the first

\* text boxes handed to _cluster_text_boxes
FragPool ==
    { <<30, 80, 200, 30>>,
      <<30, 130, 200, 30>>,     \* 20 below the first
      <<30, 155, 200, 30>>,     \* 45 below the first: 1.5 times the line height
      <<30, 300, 200, 30>>,     \* 190 below the first
      <<10, 60, 200, 300>>,     \* a tall box covering the four above
      <<300, 500, 40, 10>>,     \* too small to make a region alone
      <<100, 400, 61, 10>>,     \* alone: a candidate 101 wide and exactly 50 high
      <<100, 450, 60, 11>>,     \* alone: a candidate exactly 100 wide and 51 high
      <<350, 310, 100, 40>>,    \* crosses the right edge of a 400 x 600 image
      <<380, 590, 100, 60>>,    \* crosses its bottom right corner
      <<-60, -200, 150, 190>> } \* above the image, crossing its left edge

ImageSizes == { <<400, 600>>, <<220, 350>> }

Poly(box) ==
    << <<X(box), Y(box)>>, <<X(box) + W(box), Y(box)>>,
       <<X(box) + W(box), Y(box) + H(box)>>, <<X(box), Y(box) + H(box)>> >>
Frag(box, score, text) == [box |-> Poly(box), score |-> score, text |-> text]

\* what PaddleOCRProcessor.recognize_text returns in this repository
StubFragments ==
    << Frag(<<10, 20, 90, 30>>, 95, <<"t", "1">>),
       Frag(<<10, 60, 90, 30>>, 87, <<"t", "2">>),
       Frag(<<10, 100, 90, 30>>, 92, <<"t", "3">>) >>
NestedFragments ==
    << Frag(<<30, 80, 200, 30>>, 90, <<"a">>),
       Frag(<<10, 60, 200, 300>>, 90, <<"b">>),
       Frag(<<30, 300, 200, 30>>, 90, <<"c">>) >>
TwoFragments ==
    << [box |-> << <<32, 80>>, <<230, 82>>, <<228, 110>>, <<30, 108>> >>,
        score |-> 51, text |-> <<" ", "a", " ">>],
       Frag(<<30, 200, 200, 30>>, 50, <<"b">>),
       Frag(<<30, 300, 200, 30>>, 99, <<"c">>) >>
NoEligibleFragments ==
    << Frag(<<30, 80, 200, 30>>, 50, <<"a">>),
       Frag(<<30, 130, 200, 30>>, 90, <<" ", "\t", "\n">>),
       Frag(<<30, 300, 200, 30>>, 90, <<>>) >>

Contour(area, rect) == [area |-> area, rect |-> rect]
Found(contours) == [raises |-> FALSE, contours |-> contours]
MethodRaises == [raises |-> TRUE, contours |-> <<>>]
\* the try body raises after these contours were found, part-way through the filter
RaisesAfter(contours) == [raises |-> TRUE, contours |-> contours]

\* what one threshold method can find on a 600 x 400 page
MethodPool ==
    { Found(<<>>),
      MethodRaises,
      RaisesAfter(<< Contour(18000, <<300, 200, 200, 90>>),
                     Contour(4500, <<220, 10, 60, 80>>) >>),
      Found(<< Contour(19000, <<10, 10, 200, 100>>), Contour(400, <<40, 40, 20, 20>>),
               Contour(5000, <<0, 0, 540, 100>>), Contour(5000, <<0, 0, 100, 320>>) >>),
      Found(<< Contour(16000, <<15, 15, 190, 90>>), Contour(5000, <<0, 200, 50, 100>>),
               Contour(5000, <<0, 200, 100, 30>>), Contour(3000, <<400, 100, 100, 60>>) >>),
      Found(<< Contour(3001, <<400, 10, 100, 60>>), Contour(4500, <<220, 10, 60, 80>>),
               Contour(5000, <<0, 200, 60, 200>>), Contour(5000, <<0, 200, 400, 40>>) >>),
      Found(<< Contour(17000, <<90, 10, 200, 90>>), Contour(4500, <<220, 10, 60, 80>>) >>) }

WidePage == <<600, 400>>
TallPage == <<400, 600>>

MethodsMixed ==
    << Found(<< Contour(19000, <<10, 10, 200, 100>>), Contour(400, <<40, 40, 20, 20>>) >>),
       Found(<< Contour(16000, <<15, 15, 190, 90>>), Contour(3000, <<400, 100, 100, 60>>) >>),
       MethodRaises,
       Found(<< Contour(3001, <<400, 10, 100, 60>>), Contour(4500, <<220, 10, 60, 80>>) >>) >>
MethodsChain ==
    << Found(<< Contour(17000, <<90, 10, 200, 90>>), Contour(4500, <<220, 10, 60, 80>>) >>),
       Found(<<>>), MethodRaises, Found(<<>>) >>
MethodsNothing == << Found(<<>>), Found(<<>>), Found(<<>>), Found(<<>>) >>

Page(readable, size, ocr, fragments, methods, gray_raises, write_raises) ==
    [readable |-> readable, size |-> size, ocr |-> ocr, fragments |-> fragments,
     methods |-> methods, gray_raises |-> gray_raises, write_raises |-> write_raises]

\* the page images a run can meet.  ocr is what self.ocr_processor.process_image
\* does when it is called on the page.
PagePool ==
    { Page(FALSE, TallPage, "ok", <<>>, MethodsNothing, FALSE, FALSE),
      Page(TRUE, TallPage, "ok", StubFragments, MethodsChain, FALSE, FALSE),
      Page(TRUE, TallPage, "ok", NestedFragments, MethodsNothing, FALSE, FALSE),
      Page(TRUE, TallPage, "ok", TwoFragments, MethodsChain, FALSE, FALSE),
      Page(TRUE, TallPage, "ok", NoEligibleFragments, MethodsChain, FALSE, FALSE),
      Page(TRUE, TallPage, "ok", <<>>, MethodsNothing, FALSE, FALSE),
      Page(TRUE, WidePage, "raise", <<>>, MethodsMixed, FALSE, FALSE),
      Page(TRUE, WidePage, "raise", <<>>, MethodsNothing, FALSE, FALSE),
      Page(TRUE, WidePage, "raise", <<>>, MethodsMixed, TRUE, FALSE),
      Page(TRUE, TallPage, "ok", StubFragments, MethodsNothing, FALSE, TRUE),
      Page(TRUE, WidePage, "raise", <<>>, MethodsMixed, FALSE, TRUE) }

-----------------------------------------------------------------------------
(* State *)

EmptyDict == [k \in {} |-> {}]
\* line 298: overlap_threshold=0.5
default_overlap_threshold == <<1, 2>>
None == <<>>

\* line 72: os.path.join(output_dir, f"page_{i+1}.png")
PagePath(k) == <<"pdf_pages/", "page_">> \o Digits(k) \o <<".png">>

\* image_paths as pdf_to_images returns it for the page images `pages`
ImagePathsOf(pages) == [k \in 1..Len(pages) |-> [path |-> PagePath(k), image |-> pages[k]]]

\* nothing has been detected, extracted or recorded yet
Fresh ==
    /\ overlap_threshold = default_overlap_threshold
    /\ i = 0
    /\ path_taken = "none"
    /\ all_boxes = <<>>
    /\ boxes = boxes_in
    /\ unique_boxes = <<>>
    /\ text_boxes = text_boxes_in
    /\ clusters = <<>>
    /\ question_boxes = <<>>
    /\ question_images = <<>>
    /\ results = EmptyDict

-----------------------------------------------------------------------------
(* _remove_duplicate_boxes *)

RemoveDuplicateBoxesEffect(bs) ==
    /\ boxes_in' = bs
    /\ boxes' = BoxesAfterDedup(bs)
    /\ unique_boxes' = RemoveDuplicateBoxes(bs)

\* _remove_duplicate_boxes(boxes) called on any list of rectangles
InitDedup ==
    /\ pc = "call_remove_duplicate_boxes"
    /\ ocr_available = FALSE
    /\ image_paths = <<>>
    /\ image_size = <<0, 0>>
    /\ boxes_in \in SeqsUpTo(DedupPool, MaxBoxes)
    /\ text_boxes_in = <<>>
    /\ Fresh

CallRemoveDuplicateBoxes ==
    /\ pc = "call_remove_duplicate_boxes"
    /\ IF RemoveDuplicateBoxesRaises(boxes_in)
       THEN \* the division of line 335 raises; the list is already sorted (line 313)
            /\ boxes_in' = boxes_in
            /\ boxes' = BoxesAfterDedup(boxes_in)
            /\ unique_boxes' = unique_boxes
            /\ pc' = "raised"
       ELSE /\ RemoveDuplicateBoxesEffect(boxes_in)
            /\ pc' = "returned"
    /\ UNCHANGED <<overlap_threshold, ocr_available, image_paths, i, path_taken, all_boxes, text_boxes_in,
                   text_boxes, image_size, clusters, question_boxes, question_images,
                   results>>

NextDedup == CallRemoveDuplicateBoxes
SpecDedup == InitDedup /\ [][NextDedup]_vars

\* thresholds a caller may pass: 0, 1/4, 1/2, 3/4, 1
Thresholds == { <<0, 1>>, <<1, 4>>, <<1, 2>>, <<3, 4>>, <<1, 1>> }

\* _remove_duplicate_boxes(boxes, overlap_threshold) called with any threshold
InitDedupThreshold ==
    /\ pc = "call_remove_duplicate_boxes"
    /\ overlap_threshold \in Thresholds
    /\ ocr_available = FALSE
    /\ image_paths = <<>>
    /\ image_size = <<0, 0>>
    /\ boxes_in \in SeqsUpTo(DedupPool, MaxBoxes)
    /\ text_boxes_in = <<>>
    /\ i = 0
    /\ path_taken = "none"
    /\ all_boxes = <<>>
    /\ boxes = boxes_in
    /\ unique_boxes = <<>>
    /\ text_boxes = <<>>
    /\ clusters = <<>>
    /\ question_boxes = <<>>
    /\ question_images = <<>>
    /\ results = EmptyDict

NextDedupThreshold == CallRemoveDuplicateBoxes
SpecDedupThreshold == InitDedupThreshold /\ [][NextDedupThreshold]_vars

-----------------------------------------------------------------------------
(* _cluster_text_boxes *)

ClusterTextBoxesEffect(tbs, size) ==
    /\ text_boxes_in' = tbs
    /\ text_boxes' = TextBoxesAfterCluster(tbs)
    /\ image_size' = size
    /\ clusters' = ClustersOf(tbs)
    /\ question_boxes' = ClusterTextBoxes(tbs, size[1], size[2])

\* _cluster_text_boxes(text_boxes, image_width, image_height) called on any text boxes
InitCluster ==
    /\ pc = "call_cluster_text_boxes"
    /\ ocr_available = TRUE
    /\ image_paths = <<>>
    /\ image_size \in ImageSizes
    /\ boxes_in = <<>>
    /\ text_boxes_in \in SeqsUpTo(FragPool, MaxFrags)
    /\ Fresh

CallClusterTextBoxes ==
    /\ pc = "call_cluster_text_boxes"
    /\ ClusterTextBoxesEffect(text_boxes_in, image_size)
    /\ path_taken' = "assisted"
    /\ pc' = "returned"
    /\ UNCHANGED <<overlap_threshold, ocr_available, image_paths, i, all_boxes, boxes_in, boxes,
                   unique_boxes, question_images, results>>

NextCluster == CallClusterTextBoxes
SpecCluster == InitCluster /\ [][NextCluster]_vars

-----------------------------------------------------------------------------
(* _detect_questions_traditional *)

\* variant: the candidate list is kept from one call to the next
DetectQuestionsTraditionalAccumulating(page) ==
    /\ image_size' = page.size
    /\ all_boxes' = all_boxes \o AllBoxes(page.methods, page.size[1], page.size[2])
    /\ RemoveDuplicateBoxesEffect(
          all_boxes \o AllBoxes(page.methods, page.size[1], page.size[2]))
    /\ question_boxes' =
          ReadingOrder(RemoveDuplicateBoxes(
              all_boxes \o AllBoxes(page.methods, page.size[1], page.size[2])))

\* lines 240-296 as they change the state
DetectQuestionsTraditionalEffect(page) ==
    /\ image_size' = page.size
    /\ all_boxes' = AllBoxes(page.methods, page.size[1], page.size[2])
    /\ RemoveDuplicateBoxesEffect(AllBoxes(page.methods, page.size[1], page.size[2]))
    /\ question_boxes' = DetectQuestionsTraditional(page)

\* _detect_questions_traditional(image) called on any readable page image
InitTraditional ==
    /\ pc = "call_detect_questions_traditional"
    /\ ocr_available = FALSE
    /\ \E methods \in [1..4 -> MethodPool], gray_raises \in BOOLEAN :
          image_paths = ImagePathsOf(
              <<Page(TRUE, WidePage, "raise", <<>>, methods, gray_raises, FALSE)>>)
    /\ image_size = <<0, 0>>
    /\ boxes_in = <<>>
    /\ text_boxes_in = <<>>
    /\ Fresh

CallDetectQuestionsTraditional ==
    /\ pc = "call_detect_questions_traditional"
    /\ IF image_paths[1].image.gray_raises
       THEN \* cv2.cvtColor (line 243) raises: nothing in the method catches it
            /\ pc' = "raised"
            /\ UNCHANGED <<all_boxes, boxes_in, boxes, unique_boxes, image_size,
                           question_boxes, path_taken>>
       ELSE /\ DetectQuestionsTraditionalEffect(image_paths[1].image)
            /\ path_taken' = "traditional"
            /\ pc' = "returned"
    /\ UNCHANGED <<overlap_threshold, ocr_available, image_paths, i, text_boxes_in, text_boxes, clusters,
                   question_images, results>>

NextTraditional == CallDetectQuestionsTraditional
SpecTraditional == InitTraditional /\ [][NextTraditional]_vars

\* either region detector, called on its own
InitRegions == InitCluster \/ InitTraditional
NextRegions == CallClusterTextBoxes \/ CallDetectQuestionsTraditional
SpecRegions == InitRegions /\ [][NextRegions]_vars

-----------------------------------------------------------------------------
(* analyze_pdf *)

\* the state after PDFAnalyzer(pdf_path) and pdf_to_images()
Init ==
    /\ pc = "analyze_pdf"
    /\ ocr_available \in BOOLEAN
    /\ \E pages \in SeqsUpTo(PagePool, MaxPages) : image_paths = ImagePathsOf(pages)
    /\ image_size = <<0, 0>>
    /\ boxes_in = <<>>
    /\ text_boxes_in = <<>>
    /\ Fresh

\* lines 394-403
Start ==
    /\ pc = "analyze_pdf"
    /\ IF image_paths = <<>>
       THEN /\ results' = EmptyDict
            /\ pc' = "done"
            /\ i' = i
       ELSE /\ results' = [total_pages |-> Len(image_paths), pages |-> <<>>]
            /\ i' = 1
            /\ pc' = "detect"
    /\ UNCHANGED <<overlap_threshold, ocr_available, image_paths, path_taken, all_boxes, boxes_in, boxes,
                   unique_boxes, text_boxes_in, text_boxes, image_size, clusters,
                   question_boxes, question_images>>

\* line 414: detect_question_boundaries(image_path), lines 104-158
DetectQuestionBoundaries ==
    /\ pc = "detect"
    /\ LET page == image_paths[i].image
       IN  IF ~page.readable
           THEN \* lines 118-120
                /\ question_boxes' = <<>>
                /\ path_taken' = "unreadable"
                /\ pc' = "extract"
                /\ UNCHANGED <<all_boxes, boxes_in, boxes, unique_boxes, text_boxes_in,
                               text_boxes, image_size, clusters>>
           ELSE IF TakesAssistedPath(ocr_available, page)
           THEN \* lines 127-152
                /\ ClusterTextBoxesEffect(TextBoxesOf(page.fragments), page.size)
                /\ path_taken' = "assisted"
                /\ pc' = "extract"
                /\ UNCHANGED <<all_boxes, boxes_in, boxes, unique_boxes>>
           ELSE IF page.gray_raises
           THEN \* line 158 -> line 243: the exception leaves analyze_pdf
                /\ path_taken' = "traditional"
                /\ pc' = "raised"
                /\ UNCHANGED <<all_boxes, boxes_in, boxes, unique_boxes, text_boxes_in,
                               text_boxes, image_size, clusters, question_boxes>>
           ELSE \* line 158
                /\ DetectQuestionsTraditionalEffect(page)
                /\ path_taken' = "traditional"
                /\ pc' = "extract"
                /\ UNCHANGED <<text_boxes_in, text_boxes, clusters>>
    /\ UNCHANGED <<overlap_threshold, ocr_available, image_paths, i, question_images, results>>

\* line 417: extract_questions(image_path, question_boxes, i + 1), lines 344-383
ExtractQuestions ==
    /\ pc = "extract"
    /\ LET page == image_paths[i].image
       IN  IF ~page.readable
           THEN \* lines 360-362
                /\ question_images' = <<>>
                /\ pc' = "record"
           ELSE IF ExtractRaises(page, question_boxes)
           THEN \* os.makedirs or cv2.imwrite raises: the exception leaves analyze_pdf
                /\ question_images' = question_images
                /\ pc' = "raised"
           ELSE /\ question_images' = ExtractedPaths(question_boxes, i)
                /\ pc' = "record"
    /\ UNCHANGED <<overlap_threshold, ocr_available, image_paths, i, path_taken, all_boxes, boxes_in, boxes,
                   unique_boxes, text_boxes_in, text_boxes, image_size, clusters,
                   question_boxes, results>>

\* variant: page_number is the loop index i, counted from 0
PageInfoZeroBased(k, image_path, qimages, qboxes) ==
    [page_number |-> k - 1,
     image_path |-> image_path,
     questions |-> [j \in 1..Len(qimages) |->
                      [question_number |-> j,
                       image_path |-> qimages[j],
                       bounding_box |-> IF j <= Len(qboxes) THEN qboxes[j] ELSE None]]]
\* variant: the last computed box is not matched
PageInfoOffByOne(k, image_path, qimages, qboxes) ==
    [page_number |-> k,
     image_path |-> image_path,
     questions |-> [j \in 1..Len(qimages) |->
                      [question_number |-> j,
                       image_path |-> qimages[j],
                       bounding_box |-> IF j < Len(qboxes) THEN qboxes[j] ELSE None]]]
\* lines 407-411 and 419-426
PageInfo(k, image_path, qimages, qboxes) ==
    [page_number |-> k,
     image_path |-> image_path,
     questions |-> [j \in 1..Len(qimages) |->
                      [question_number |-> j,
                       image_path |-> qimages[j],
                       bounding_box |-> IF j <= Len(qboxes) THEN qboxes[j] ELSE None]]]

\* variant: the loop is left after a page that could not be read
RecordPageStopsAtUnreadable ==
    /\ pc = "record"
    /\ results' = [results EXCEPT !.pages =
                     Append(@, PageInfo(i, image_paths[i].path, question_images,
                                        question_boxes))]
    /\ IF i < Len(image_paths) /\ image_paths[i].image.readable
       THEN i' = i + 1 /\ pc' = "detect"
       ELSE i' = i /\ pc' = "summarise"
    /\ UNCHANGED <<overlap_threshold, ocr_available, image_paths, path_taken, all_boxes, boxes_in, boxes,
                   unique_boxes, text_boxes_in, text_boxes, image_size, clusters,
                   question_boxes, question_images>>

\* lines 419-428, and the loop step of line 406
RecordPage ==
    /\ pc = "record"
    /\ results' = [results EXCEPT !.pages =
                     Append(@, PageInfo(i, image_paths[i].path, question_images,
                                        question_boxes))]
    /\ IF i < Len(image_paths)
       THEN i' = i + 1 /\ pc' = "detect"
       ELSE i' = i /\ pc' = "summarise"
    /\ UNCHANGED <<overlap_threshold, ocr_available, image_paths, path_taken, all_boxes, boxes_in, boxes,
                   unique_boxes, text_boxes_in, text_boxes, image_size, clusters,
                   question_boxes, question_images>>

\* variant: the count of the last page instead of the sum
QuestionsOfLastPage(pages) ==
    IF pages = <<>> THEN 0 ELSE Len(pages[Len(pages)].questions)
\* line 431: sum(len(page["questions"]) for page in results["pages"])
RECURSIVE TotalQuestions(_)
TotalQuestions(pages) ==
    IF pages = <<>> THEN 0 ELSE Len(Head(pages).questions) + TotalQuestions(Tail(pages))

\* lines 430-435
Summarise ==
    /\ pc = "summarise"
    /\ results' = results @@ ("total_questions" :> TotalQuestions(results.pages))
    /\ pc' = "done"
    /\ UNCHANGED <<overlap_threshold, ocr_available, image_paths, i, path_taken, all_boxes, boxes_in, boxes,
                   unique_boxes, text_boxes_in, text_boxes, image_size, clusters,
                   question_boxes, question_images>>

\* the recording loop of lines 419-428 on its own: one page, any list of computed
\* boxes and any number of artifacts, as when extract_questions is overridden
InitRecord ==
    /\ pc = "record"
    /\ overlap_threshold = default_overlap_threshold
    /\ ocr_available = FALSE
    /\ image_paths =
          ImagePathsOf(<<Page(TRUE, TallPage, "raise", <<>>, MethodsNothing, FALSE, FALSE)>>)
    /\ i = 1
    /\ path_taken = "none"
    /\ all_boxes = <<>>
    /\ boxes_in = <<>>
    /\ boxes = <<>>
    /\ unique_boxes = <<>>
    /\ text_boxes_in = <<>>
    /\ text_boxes = <<>>
    /\ image_size = <<0, 0>>
    /\ clusters = <<>>
    /\ question_boxes \in SeqsUpTo(DedupPool, MaxBoxes)
    /\ \E n \in 0..(MaxBoxes + 1) : question_images = [k \in 1..n |-> QuestionPath(1, k)]
    /\ results = [total_pages |-> 1, pages |-> <<>>]

NextRecord == RecordPage \/ Summarise
SpecRecord == InitRecord /\ [][NextRecord]_vars

Next ==
    \/ Start
    \/ DetectQuestionBoundaries
    \/ ExtractQuestions
    \/ RecordPage
    \/ Summarise

Spec == Init /\ [][Next]_vars

-----------------------------------------------------------------------------
(* OCRProcessor.batch_process (src/core/processor.py), with the default mode COMBINED *)

\* the images a batch can name: what process_image does for each
BatchPool ==
    { [path |-> "a.png", image |-> [ocr |-> "ok", error |-> ""]],
      [path |-> "b.png", image |-> [ocr |-> "ok", error |-> ""]],
      [path |-> "missing.png", image |-> [ocr |-> "raise", error |-> "no such file"]],
      [path |-> "bad.png", image |-> [ocr |-> "raise", error |-> "cannot decode"]] }

\* what process_image returns in mode COMBINED (_process_combined)
ProcessImageResult(item) == [image_path |-> item.path, processing_mode |-> "combined"]

\* the record appended by the except branch of batch_process
ErrorRecord(item) == [image_path |-> item.path, error |-> item.image.error, success |-> FALSE]

\* variant: a path that fails is left out of the list
AppendOutcomeSkippingFailures(res, item) ==
    IF item.image.ocr = "ok" THEN Append(res, ProcessImageResult(item)) ELSE res
\* one pass of the loop of batch_process
AppendOutcome(res, item) ==
    IF item.image.ocr = "ok"
    THEN Append(res, ProcessImageResult(item))
    ELSE Append(res, ErrorRecord(item))

InitBatch ==
    /\ pc = "batch_process"
    /\ overlap_threshold = default_overlap_threshold
    /\ ocr_available = TRUE
    /\ image_paths \in SeqsUpTo(BatchPool, MaxPaths)
    /\ i = 1
    /\ path_taken = "none"
    /\ all_boxes = <<>>
    /\ boxes_in = <<>>
    /\ boxes = <<>>
    /\ unique_boxes = <<>>
    /\ text_boxes_in = <<>>
    /\ text_boxes = <<>>
    /\ image_size = <<0, 0>>
    /\ clusters = <<>>
    /\ question_boxes = <<>>
    /\ question_images = <<>>
    /\ results = <<>>

\* one iteration of `for image_path in image_paths`
BatchProcessImage ==
    /\ pc = "batch_process"
    /\ i <= Len(image_paths)
    /\ results' = AppendOutcome(results, image_paths[i])
    /\ i' = i + 1
    /\ pc' = pc
    /\ UNCHANGED <<overlap_threshold, ocr_available, image_paths, path_taken, all_boxes,
                   boxes_in, boxes, unique_boxes, text_boxes_in, text_boxes, image_size,
                   clusters, question_boxes, question_images>>

\* return results
BatchProcessReturn ==
    /\ pc = "batch_process"
    /\ i > Len(image_paths)
    /\ pc' = "returned"
    /\ UNCHANGED <<overlap_threshold, ocr_available, image_paths, i, path_taken, all_boxes,
                   boxes_in, boxes, unique_boxes, text_boxes_in, text_boxes, image_size,
                   clusters, question_boxes, question_images, results>>

NextBatch == BatchProcessImage \/ BatchProcessReturn
SpecBatch == InitBatch /\ [][NextBatch]_vars

-----------------------------------------------------------------------------
(* Properties *)

\* area of the common part of two rectangles, 0 when they do not meet
CommonArea(a, b) ==
    LET cw == Min2(X(a) + W(a), X(b) + W(b)) - Max2(X(a), X(b))
        ch == Min2(Y(a) + H(a), Y(b) + H(b)) - Max2(Y(a), Y(b))
    IN  IF cw > 0 /\ ch > 0 THEN cw * ch ELSE 0
\* intersection_area / min(area_a, area_b) > 0.5
RatioAboveHalf(a, b) == 2 * CommonArea(a, b) > Min2(Area(a), Area(b))
Inside(a, b) ==
    /\ X(b) <= X(a) /\ X(a) + W(a) <= X(b) + W(b)
    /\ Y(b) <= Y(a) /\ Y(a) + H(a) <= Y(b) + H(b)
CurrentPage == image_paths[i].image

\* C1: the rectangles detect_question_boundaries returns for a page overlap pairwise
\* by at most 0.5 of the smaller one, on the assisted and on the unassisted path.
C1_PageRegionsOverlapAtMostHalf ==
    pc = "extract" =>
        \A a, b \in 1..Len(question_boxes) :
            a # b => ~RatioAboveHalf(question_boxes[a], question_boxes[b])

\* C2 as stated: _remove_duplicate_boxes returns the same set of rectangles for every
\* permutation of its input list.
C2_SameSetForEveryPermutation ==
    pc = "returned" =>
        \A p \in PermutationsOf(boxes_in) :
            Range(RemoveDuplicateBoxes(p)) = Range(unique_boxes)

NoTwoOfEqualArea(bs) == \A a, b \in Range(bs) : Area(a) = Area(b) => a = b

\* C2 as amended: for an input list in which no two different rectangles have the same
\* area, _remove_duplicate_boxes returns the same set for every permutation of the list.
C2_SameSetForEveryPermutationOfDistinctAreas ==
    (pc = "returned" /\ NoTwoOfEqualArea(boxes_in)) =>
        \A p \in PermutationsOf(boxes_in) :
            Range(RemoveDuplicateBoxes(p)) = Range(unique_boxes)

C2_Witness ==
    /\ pc = "returned"
    /\ Len(boxes_in) = 3
    /\ NoTwoOfEqualArea(boxes_in)
    /\ Cardinality(Range(boxes_in)) = 3
    /\ boxes # boxes_in
    /\ Len(unique_boxes) = 2

C4_RegionsInsideImage ==
    (pc = "returned" /\ path_taken = "assisted") =>
        \A k \in 1..Len(question_boxes) :
            LET r == question_boxes[k]
            IN  /\ 0 <= X(r) /\ 0 <= Y(r)
                /\ X(r) + W(r) <= image_size[1]
                /\ Y(r) + H(r) <= image_size[2]
                /\ W(r) > 0 /\ H(r) > 0

C4_Witness ==
    /\ pc = "returned"
    /\ path_taken = "assisted"
    /\ \E c \in Range(clusters) :
          /\ \E b \in Range(c) : X(b) < 0 /\ Y(b) < 0
          /\ \E b \in Range(c) : X(b) + W(b) > image_size[1]
          /\ \E r \in Range(question_boxes) :
                /\ r = <<0, 0, image_size[1], H(r)>>
                /\ r = ClusterBox(c, image_size[1], image_size[2])

\* C5: errors are page-local in analyze_pdf: whatever pages fail, the run completes with
\* one entry per page, and an unreadable page is recorded with no region.
C5_ErrorsArePageLocal ==
    /\ pc # "raised"
    /\ (pc = "done" /\ image_paths # <<>>) =>
          /\ Len(results.pages) = Len(image_paths)
          /\ \A k \in 1..Len(image_paths) :
                ~image_paths[k].image.readable => results.pages[k].questions = <<>>

\* C6 as stated: the regions are those of the clusterer if the recognizer gave an eligible
\* fragment, and those of the threshold pipeline when no recognizer is configured, the
\* recognizer raises or it yields no eligible fragment.
C6_TraditionalWheneverNoFragment ==
    (pc = "extract" /\ CurrentPage.readable) =>
        IF ocr_available /\ CurrentPage.ocr = "ok"
           /\ \E k \in 1..Len(CurrentPage.fragments) : Eligible(CurrentPage.fragments[k])
        THEN question_boxes = ClusterTextBoxes(TextBoxesOf(CurrentPage.fragments),
                                               CurrentPage.size[1], CurrentPage.size[2])
        ELSE question_boxes = DetectQuestionsTraditional(CurrentPage)

\* C6 as amended: the regions are those of the clusterer whenever a recognizer is
\* configured and its call returns, also when it yields no eligible fragment (the
\* clusterer then returns no region); they are those of the threshold pipeline only
\* when no recognizer is configured or the recognizer raises.
C6_TraditionalOnlyWithoutRecognizerResult ==
    (pc = "extract" /\ CurrentPage.readable) =>
        IF ocr_available /\ CurrentPage.ocr = "ok"
        THEN /\ path_taken = "assisted"
             /\ question_boxes = ClusterTextBoxes(TextBoxesOf(CurrentPage.fragments),
                                                  CurrentPage.size[1], CurrentPage.size[2])
        ELSE /\ path_taken = "traditional"
             /\ question_boxes = DetectQuestionsTraditional(CurrentPage)

C6_Witness ==
    /\ pc = "extract"
    /\ CurrentPage.readable
    /\ ocr_available
    /\ CurrentPage.ocr = "ok"
    /\ CurrentPage.fragments # <<>>
    /\ \A k \in 1..Len(CurrentPage.fragments) : ~Eligible(CurrentPage.fragments[k])
    /\ path_taken = "assisted"
    /\ question_boxes = <<>>
    /\ DetectQuestionsTraditional(CurrentPage) # <<>>

\* C7: of two rectangles of different area that overlap by more than 0.5 of the smaller,
\* _remove_duplicate_boxes returns exactly the larger, in whichever order they are given.
C7_LargerOfTwoSurvives ==
    (/\ pc = "returned"
     /\ Len(boxes_in) = 2
     /\ Area(boxes_in[1]) # Area(boxes_in[2])
     /\ RatioAboveHalf(boxes_in[1], boxes_in[2])) =>
        unique_boxes = << IF Area(boxes_in[1]) > Area(boxes_in[2])
                          THEN boxes_in[1] ELSE boxes_in[2] >>

C7_Witness ==
    /\ pc = "returned"
    /\ boxes_in = << <<15, 15, 190, 90>>, <<10, 10, 200, 100>> >>
    /\ unique_boxes = << <<10, 10, 200, 100>> >>

\* C8 as stated: a rectangle of positive area lying entirely inside another input
\* rectangle of strictly larger area is never in the output of _remove_duplicate_boxes.
C8_EnclosedRectangleAbsorbed ==
    pc = "returned" =>
        \A a, b \in Range(boxes_in) :
            (Area(a) > 0 /\ Inside(a, b) /\ Area(b) > Area(a)) =>
                a \notin Range(unique_boxes)

\* C8 as amended: a rectangle of positive area lying entirely inside another input
\* rectangle of strictly larger area is not in the output if that larger rectangle is
\* in the output; when the larger one is itself suppressed the smaller may survive.
C8_EnclosedByAcceptedRectangleAbsorbed ==
    pc = "returned" =>
        \A a, b \in Range(boxes_in) :
            (Area(a) > 0 /\ Inside(a, b) /\ Area(b) > Area(a)
             /\ b \in Range(unique_boxes)) =>
                a \notin Range(unique_boxes)

C8_Witness ==
    /\ pc = "returned"
    /\ Len(boxes_in) = 3
    /\ \E a, b \in Range(boxes_in) :
          /\ Area(a) > 0 /\ Inside(a, b) /\ Area(b) > 2 * Area(a)
          /\ boxes_in[1] = a
          /\ b \in Range(unique_boxes)
          /\ a \notin Range(unique_boxes)
          /\ Len(unique_boxes) = 2

\* the rectangles, in order, of the contours whose area is above the floor (strict) or
\* at least the floor, and whose rectangle has the stated size and aspect ratio
RECURSIVE RectsKept(_, _, _, _)
RectsKept(contours, strict, width, height) ==
    IF contours = <<>> THEN <<>>
    ELSE LET c == Head(contours)
             w == W(c.rect)
             h == H(c.rect)
         IN  (IF /\ IF strict THEN c.area > 3000 ELSE c.area >= 3000
                 /\ w > 50 /\ h > 30
                 /\ 10 * w < 9 * width /\ 10 * h < 8 * height
                 /\ 3 * h < 10 * w /\ w < 10 * h
              THEN <<c.rect>> ELSE <<>>)
             \o RectsKept(Tail(contours), strict, width, height)

CandidatesWithFloor(page, strict) ==
    LET of(m) == IF page.methods[m].raises THEN <<>>
                 ELSE RectsKept(page.methods[m].contours, strict, page.size[1], page.size[2])
    IN  of(1) \o of(2) \o of(3) \o of(4)

\* C9 as stated: a contour of a configuration that does not raise contributes its
\* rectangle iff area >= 3000, w > 50, h > 30, w < 0.9 page_width, h < 0.8 page_height
\* and 0.3 < w/h < 10; the contour of area 400 at (40,40,20,20) is never in the output.
C9_CandidatesFromAreaAtLeast3000 ==
    pc = "returned" =>
        /\ all_boxes = CandidatesWithFloor(image_paths[1].image, FALSE)
        /\ <<40, 40, 20, 20>> \notin Range(question_boxes)

\* C9 as amended: the same with area > 3000 (a contour of area exactly 3000 is
\* rejected); the contour of area 400 at (40,40,20,20) is never in the output.
C9_CandidatesFromAreaAbove3000 ==
    pc = "returned" =>
        /\ all_boxes = CandidatesWithFloor(image_paths[1].image, TRUE)
        /\ <<40, 40, 20, 20>> \notin Range(question_boxes)

C9_Witness ==
    /\ pc = "returned"
    /\ \E m1, m2, m3 \in 1..4 :
          /\ ~image_paths[1].image.methods[m1].raises
          /\ \E c \in Range(image_paths[1].image.methods[m1].contours) :
                c.area = 3000 /\ c.rect \notin Range(all_boxes)
          /\ ~image_paths[1].image.methods[m2].raises
          /\ \E c \in Range(image_paths[1].image.methods[m2].contours) :
                c.area = 3001 /\ c.rect \in Range(all_boxes)
          /\ ~image_paths[1].image.methods[m3].raises
          /\ \E c \in Range(image_paths[1].image.methods[m3].contours) :
                c.area = 400 /\ c.rect = <<40, 40, 20, 20>>

\* C10: two text boxes with tops y1 <= y2 form one cluster when
\* y2 - (y1 + h1) <= 1.5 * (h1 + h2) / 2 and two clusters otherwise; the boxes at
\* (y=80,h=30) and (y=130,h=30) give one region spanning both widened by 20, the boxes
\* at (y=80,h=30) and (y=300,h=30) give two regions.
C10_TwoFragments ==
    (pc = "returned" /\ path_taken = "assisted" /\ Len(text_boxes_in) = 2) =>
        LET a == text_boxes_in[1]
            b == text_boxes_in[2]
            first == IF Y(a) <= Y(b) THEN a ELSE b
            second == IF Y(a) <= Y(b) THEN b ELSE a
            gap == Y(second) - (Y(first) + H(first))
        IN  /\ 4 * gap <= 3 * (H(first) + H(second)) =>
                /\ clusters = << <<first, second>> >>
                /\ Len(question_boxes) <= 1
            /\ 4 * gap > 3 * (H(first) + H(second)) =>
                clusters = << <<first>>, <<second>> >>
            /\ (image_size = <<400, 600>>
                /\ {a, b} = { <<30, 80, 200, 30>>, <<30, 130, 200, 30>> }) =>
                question_boxes = << <<10, 60, 240, 120>> >>
            /\ (image_size = <<400, 600>>
                /\ {a, b} = { <<30, 80, 200, 30>>, <<30, 300, 200, 30>> }) =>
                question_boxes = << <<10, 60, 240, 70>>, <<10, 280, 240, 70>> >>

C10_Witness ==
    /\ pc = "returned"
    /\ path_taken = "assisted"
    /\ image_size = <<400, 600>>
    /\ text_boxes_in = << <<30, 300, 200, 30>>, <<30, 80, 200, 30>> >>
    /\ Len(clusters) = 2
    /\ Len(question_boxes) = 2

\* the running line_height after the k-th box of the y-sorted list, as <<num, den>>:
\* the height of the first box, then the mean of the estimate and the next height
RECURSIVE RunningLineHeight(_, _)
RunningLineHeight(sorted, k) ==
    IF k = 1 THEN <<H(sorted[1]), 1>>
    ELSE LET before == RunningLineHeight(sorted, k - 1)
         IN  <<before[1] + H(sorted[k]) * before[2], 2 * before[2]>>

\* every box of the y-sorted list starts at most 1.5 line heights below the end of the
\* box before it
AllGapsWithinLineHeight(sorted) ==
    \A k \in 2..Len(sorted) :
        LET lh == RunningLineHeight(sorted, k)
            gap == Y(sorted[k]) - (Y(sorted[k - 1]) + H(sorted[k - 1]))
        IN  2 * gap * lh[2] <= 3 * lh[1]

\* the union of the boxes widened by 20 on each side and cut to the image
ExpandedUnion(bs, width, height) ==
    LET left == Max2(0, MinOf({X(b) : b \in bs}) - 20)
        top == Max2(0, MinOf({Y(b) : b \in bs}) - 20)
        right == Min2(width, MaxOf({X(b) + W(b) : b \in bs}) + 20)
        bottom == Min2(height, MaxOf({Y(b) + H(b) : b \in bs}) + 20)
    IN  <<left, top, right - left, bottom - top>>

\* C11: if in the y-sorted order of the text boxes every box's vertical gap to the box
\* before it is at most 1.5 times the running line_height at that step,
\* _cluster_text_boxes forms exactly one cluster holding all boxes and returns at most
\* one region, the expanded union of all input boxes.
C11_OneClusterWhenGapsSmall ==
    (/\ pc = "returned"
     /\ path_taken = "assisted"
     /\ text_boxes_in # <<>>
     /\ AllGapsWithinLineHeight(text_boxes)) =>
        /\ Len(clusters) = 1
        /\ clusters[1] = text_boxes
        /\ Len(question_boxes) <= 1
        /\ \A r \in Range(question_boxes) :
              r = ExpandedUnion(Range(text_boxes_in), image_size[1], image_size[2])

C11_Witness ==
    /\ pc = "returned"
    /\ path_taken = "assisted"
    /\ Len(text_boxes_in) = 3
    /\ text_boxes # text_boxes_in
    /\ AllGapsWithinLineHeight(text_boxes)
    /\ \E k \in 2..3 : 2 * (Y(text_boxes[k]) - (Y(text_boxes[k - 1]) + H(text_boxes[k - 1])))
                         = 3 * H(text_boxes[k])
    /\ Len(clusters) = 1
    /\ Len(question_boxes) = 1

\* the candidate regions of the clusters, in order, keeping those more than 100 wide
\* and more than 50 high
RECURSIVE EmittedCandidates(_, _, _)
EmittedCandidates(cls, width, height) ==
    IF cls = <<>> THEN <<>>
    ELSE LET candidate == ExpandedUnion(Range(Head(cls)), width, height)
         IN  (IF candidate[3] > 100 /\ candidate[4] > 50 THEN <<candidate>> ELSE <<>>)
             \o EmittedCandidates(Tail(cls), width, height)

\* C12: for each cluster of _cluster_text_boxes the candidate region is
\* (x0, y0, x1 - x0, y1 - y0), x0 = max(0, min x - 20), y0 = max(0, min y - 20),
\* x1 = min(image_width, max right + 20), y1 = min(image_height, max bottom + 20); it is
\* emitted iff its width > 100 and its height > 50, so no returned region has
\* width <= 100 or height <= 50 and each cluster yields at most one region.
C12_CandidateEmittedIffLargeEnough ==
    (pc = "returned" /\ path_taken = "assisted") =>
        /\ question_boxes = EmittedCandidates(clusters, image_size[1], image_size[2])
        /\ \A r \in Range(question_boxes) : ~(W(r) <= 100 \/ H(r) <= 50)
        /\ Len(question_boxes) <= Len(clusters)

C12_Witness ==
    /\ pc = "returned"
    /\ path_taken = "assisted"
    /\ image_size = <<400, 600>>
    /\ Len(clusters) = 3
    /\ ExpandedUnion(Range(clusters[1]), 400, 600) = <<10, 60, 240, 70>>
    /\ ExpandedUnion(Range(clusters[2]), 400, 600) = <<80, 380, 101, 50>>
    /\ ExpandedUnion(Range(clusters[3]), 400, 600) = <<80, 430, 100, 51>>
    /\ question_boxes = << <<10, 60, 240, 70>> >>

\* a fragment the clusterer must see: confidence above 0.5 and some character of the
\* text that is not whitespace
HasVisibleText(t) == \E k \in 1..Len(t) : t[k] \notin {" ", "\t", "\n", "\r"}
ShouldPass(f) == f.score > 50 /\ HasVisibleText(f.text)

RECURSIVE BoxesOfPassing(_)
BoxesOfPassing(fragments) ==
    IF fragments = <<>> THEN <<>>
    ELSE (IF ShouldPass(Head(fragments))
          THEN LET pts == Head(fragments).box
                   xs == {pts[k][1] : k \in 1..4}
                   ys == {pts[k][2] : k \in 1..4}
               IN  << <<MinOf(xs), MinOf(ys), MaxOf(xs) - MinOf(xs), MaxOf(ys) - MinOf(ys)>> >>
          ELSE <<>>)
         \o BoxesOfPassing(Tail(fragments))

\* fragments the recognizer may report that are not eligible
IneligibleFragments ==
    { Frag(<<30, 200, 200, 30>>, 50, <<"x">>),
      Frag(<<30, 190, 200, 300>>, 99, <<" ", "\n">>),
      Frag(<<0, 0, 400, 600>>, 90, <<>>),
      Frag(<<30, 120, 200, 30>>, 0, <<"x", "y">>) }

InsertAt(s, p, e) == SubSeq(s, 1, p) \o <<e>> \o SubSeq(s, p + 1, Len(s))
RemoveAt(s, k) == SubSeq(s, 1, k - 1) \o SubSeq(s, k + 1, Len(s))

\* C13: on the assisted path a fragment is passed to the clusterer iff its score is
\* > 0.5 and its text is non-empty after stripping whitespace; adding or removing
\* ineligible fragments never changes the regions detect_question_boundaries returns.
C13_OnlyEligibleFragmentsCount ==
    (pc = "extract" /\ path_taken = "assisted") =>
        LET frs == CurrentPage.fragments
            width == CurrentPage.size[1]
            height == CurrentPage.size[2]
        IN  /\ text_boxes_in = BoxesOfPassing(frs)
            /\ \A f \in IneligibleFragments, p \in 0..Len(frs) :
                  ClusterTextBoxes(TextBoxesOf(InsertAt(frs, p, f)), width, height)
                      = question_boxes
            /\ \A k \in 1..Len(frs) :
                  ~ShouldPass(frs[k]) =>
                      ClusterTextBoxes(TextBoxesOf(RemoveAt(frs, k)), width, height)
                          = question_boxes

C13_Witness ==
    /\ pc = "extract"
    /\ path_taken = "assisted"
    /\ Len(CurrentPage.fragments) = 3
    /\ \E k \in 1..3 : /\ CurrentPage.fragments[k].score = 51
                       /\ Head(CurrentPage.fragments[k].text) = " "
                       /\ ShouldPass(CurrentPage.fragments[k])
    /\ \E k \in 1..3 : /\ CurrentPage.fragments[k].score = 50
                       /\ HasVisibleText(CurrentPage.fragments[k].text)
    /\ Len(text_boxes_in) = 2
    /\ question_boxes = << <<10, 60, 240, 70>>, <<10, 280, 240, 70>> >>

\* the page with every threshold method completing: a method that raised finds no
\* contour instead
WithoutFailure(page) ==
    [page EXCEPT !.methods =
        [m \in 1..4 |-> IF page.methods[m].raises THEN Found(<<>>) ELSE page.methods[m]]]

\* the rectangles of the candidate list that come from method m of a page on which no
\* method raises: the m-th of the four consecutive segments of all_boxes
SegmentOf(page, m) == RectsKept(page.methods[m].contours, TRUE, page.size[1], page.size[2])

\* C14: in _detect_questions_traditional a threshold configuration that raises, at any
\* point of its try body, contributes no rectangle to the candidate set, the page is not
\* aborted, and the candidates of the other configurations are exactly those they
\* contribute when no configuration fails.
C14_FailedMethodContributesNothing ==
    (/\ pc # "call_detect_questions_traditional"
     /\ path_taken # "assisted"
     /\ ~image_paths[1].image.gray_raises
     /\ \E m \in 1..4 : image_paths[1].image.methods[m].raises) =>
        LET page == image_paths[1].image
            calm == WithoutFailure(page)
        IN  /\ pc = "returned"
            /\ all_boxes = SegmentOf(calm, 1) \o SegmentOf(calm, 2)
                           \o SegmentOf(calm, 3) \o SegmentOf(calm, 4)
            /\ \A m \in 1..4 :
                  page.methods[m].raises => SegmentOf(calm, m) = <<>>
            /\ \A m \in 1..4 :
                  ~page.methods[m].raises => SegmentOf(calm, m) = SegmentOf(page, m)
            /\ question_boxes = DetectQuestionsTraditional(calm)

C14_Witness ==
    /\ pc = "returned"
    /\ path_taken = "traditional"
    /\ LET page == image_paths[1].image
       IN  /\ Cardinality({m \in 1..4 : page.methods[m].raises}) = 1
           /\ \E m \in 1..4 :
                 /\ page.methods[m].raises
                 /\ <<300, 200, 200, 90>> \in Range(SegmentOf(page, m))
                 /\ <<300, 200, 200, 90>> \notin Range(all_boxes)
           /\ \A m \in 1..4 : ~page.methods[m].raises => SegmentOf(page, m) # <<>>
    /\ Len(question_boxes) >= 2

\* C15: when a page image cannot be decoded, detect_question_boundaries returns an empty
\* list and extract_questions returns an empty list, so analyze_pdf records that page
\* with zero questions and goes on to the next page (or, after the last page, to the
\* summary).
C15_UnreadablePageRecordedEmpty ==
    [][ (pc \in {"detect", "extract", "record"} /\ ~CurrentPage.readable) =>
            /\ pc = "detect" => (pc' = "extract" /\ question_boxes' = <<>>)
            /\ pc = "extract" => (pc' = "record" /\ question_images' = <<>>)
            /\ pc = "record" =>
                  /\ Len(results'.pages) = i
                  /\ results'.pages[i].page_number = i
                  /\ results'.pages[i].questions = <<>>
                  /\ IF i < Len(image_paths)
                     THEN pc' = "detect" /\ i' = i + 1
                     ELSE pc' = "summarise" ]_vars

C15_Witness ==
    /\ pc = "extract"
    /\ i = 2
    /\ ~image_paths[1].image.readable
    /\ results.pages[1].questions = <<>>
    /\ CurrentPage.readable
    /\ Len(question_boxes) = 2

\* C16: in the result of analyze_pdf over n >= 1 page images, pages has exactly n
\* entries in input order: for every k in 1..n the k-th entry has page_number = k and
\* the k-th input image as image_path, and total_pages = n.
C16_PagesInInputOrder ==
    (pc = "done" /\ image_paths # <<>>) =>
        /\ results.total_pages = Len(image_paths)
        /\ Len(results.pages) = Len(image_paths)
        /\ \A k \in 1..Len(image_paths) :
              /\ results.pages[k].page_number = k
              /\ results.pages[k].image_path = image_paths[k].path

C16_Witness ==
    /\ pc = "done"
    /\ Len(image_paths) = 2
    /\ image_paths[1].image # image_paths[2].image
    /\ results.pages[1].image_path = <<"pdf_pages/", "page_", "1", ".png">>
    /\ results.pages[2].image_path = <<"pdf_pages/", "page_", "2", ".png">>
    /\ Len(results.pages[1].questions) = 1
    /\ Len(results.pages[2].questions) = 2

\* C17: in every non-empty result of analyze_pdf, total_questions equals the sum over
\* all page entries of the number of question records on that page (counted here as the
\* number of (page, question) pairs of the result).
C17_TotalIsSumOverPages ==
    (pc = "done" /\ results # EmptyDict) =>
        results.total_questions =
            Cardinality(UNION { {k} \X (1..Len(results.pages[k].questions)) :
                                  k \in 1..Len(results.pages) })

C17_Witness ==
    /\ pc = "done"
    /\ results # EmptyDict
    /\ Len(results.pages) = 2
    /\ Len(results.pages[1].questions) = 2
    /\ Len(results.pages[2].questions) = 1
    /\ results.total_questions = 3

\* C18: in every question record of analyze_pdf bounding_box is null only when the page
\* has more artifacts than computed boxes: the record with 0-based index j has
\* bounding_box = boxes[j] when j < number of boxes and null exactly when
\* j >= number of boxes; a mismatch never fails the page.
C18_NullBoxOnlyBeyondComputedBoxes ==
    /\ pc # "raised"
    /\ pc \in {"summarise", "done"} =>
          LET records == results.pages[1].questions
          IN  /\ Len(records) = Len(question_images)
              /\ \A j \in 0..(Len(records) - 1) :
                    /\ j < Len(question_boxes) =>
                          records[j + 1].bounding_box = question_boxes[j + 1]
                    /\ records[j + 1].bounding_box = None <=> j >= Len(question_boxes)

C18_Witness ==
    /\ pc = "done"
    /\ Len(question_boxes) = 2
    /\ Len(question_images) = 3
    /\ results.pages[1].questions[2].bounding_box = question_boxes[2]
    /\ results.pages[1].questions[3].bounding_box = None
    /\ results.total_questions = 3

\* the regions of a page image processed by a newly constructed analyzer
RegionsOfPageAlone(available, page) ==
    IF ~page.readable THEN <<>>
    ELSE IF available /\ page.ocr = "ok"
    THEN ClusterTextBoxes(TextBoxesOf(page.fragments), page.size[1], page.size[2])
    ELSE DetectQuestionsTraditional(page)

\* the boxes recorded for the k-th page of the result
RecordedBoxes(k) ==
    [j \in 1..Len(results.pages[k].questions) |-> results.pages[k].questions[j].bounding_box]

\* a detect or extract step changes nothing that is read for another page
DetectAndExtractKeepAnalyzerState ==
    pc \in {"detect", "extract"} =>
        /\ ocr_available' = ocr_available
        /\ image_paths' = image_paths
        /\ results' = results
        /\ i' = i

\* C19: page processing is stateless across pages: the region list computed for a page
\* image is the one computed for that image alone, whatever pages were processed before
\* it, and detecting and extracting change nothing of the analyzer that is read for
\* another page (the recognizer flag, the page list, the result so far).
C19_PagesProcessedIndependently ==
    /\ [](pc = "extract" => question_boxes = RegionsOfPageAlone(ocr_available, CurrentPage))
    /\ []((pc \in {"detect", "extract", "record", "summarise", "done"} /\ i >= 1) =>
            \A k \in 1..Len(results.pages) :
                RecordedBoxes(k) = RegionsOfPageAlone(ocr_available, image_paths[k].image))
    /\ [][DetectAndExtractKeepAnalyzerState]_vars

C19_Witness ==
    /\ pc = "extract"
    /\ i = 2
    /\ path_taken = "traditional"
    /\ all_boxes # <<>>
    /\ Len(results.pages[1].questions) >= 1
    /\ results.pages[1].questions[1].bounding_box \notin Range(question_boxes)
    /\ Len(question_boxes) = 3

\* the input positions in area-descending order, positions of equal area in input order
AreaOrders(bs) ==
    {p \in [1..Len(bs) -> 1..Len(bs)] :
        /\ \A a, b \in 1..Len(bs) : a # b => p[a] # p[b]
        /\ \A a, b \in 1..Len(bs) :
              a < b => \/ Area(bs[p[a]]) > Area(bs[p[b]])
                       \/ Area(bs[p[a]]) = Area(bs[p[b]]) /\ p[a] < p[b]}

\* acc marks the rectangles the greedy reference accepts among the visited list s:
\* the k-th is accepted iff no accepted earlier one overlaps it by more than 0.5 of the
\* smaller area
IsGreedyMarking(s, acc) ==
    \A k \in 1..Len(s) :
        acc[k] <=> ~\E j \in 1..(k - 1) : acc[j] /\ RatioAboveHalf(s[j], s[k])

RECURSIVE Marked(_, _, _)
Marked(s, acc, k) ==
    IF k > Len(s) THEN <<>>
    ELSE (IF acc[k] THEN <<s[k]>> ELSE <<>>) \o Marked(s, acc, k + 1)

\* C20: _remove_duplicate_boxes equals the greedy reference: it visits the rectangles in
\* area-descending order, ties in first-seen order, and accepts a rectangle iff no
\* previously accepted rectangle has intersection / min(area) > 0.5 with it; hence the
\* first rectangle in that order is in the output, and every rejected rectangle has an
\* accepted rectangle of area >= its own overlapping it by more than the threshold.
C20_EqualsGreedyReference ==
    pc = "returned" =>
        /\ \A p \in AreaOrders(boxes_in) :
              LET s == [k \in 1..Len(boxes_in) |-> boxes_in[p[k]]]
              IN  /\ \E acc \in [1..Len(s) -> BOOLEAN] : IsGreedyMarking(s, acc)
                  /\ \A acc \in [1..Len(s) -> BOOLEAN] :
                        IsGreedyMarking(s, acc) => unique_boxes = Marked(s, acc, 1)
                  /\ s # <<>> => unique_boxes # <<>> /\ unique_boxes[1] = s[1]
        /\ AreaOrders(boxes_in) # {}
        /\ \A k \in 1..Len(boxes_in) :
              boxes_in[k] \notin Range(unique_boxes) =>
                  \E u \in Range(unique_boxes) :
                      Area(u) >= Area(boxes_in[k]) /\ RatioAboveHalf(u, boxes_in[k])

C20_Witness ==
    /\ pc = "returned"
    /\ boxes_in = << <<15, 15, 190, 90>>, <<10, 10, 200, 100>>, <<10, 60, 200, 100>> >>
    /\ boxes = << <<10, 10, 200, 100>>, <<10, 60, 200, 100>>, <<15, 15, 190, 90>> >>
    /\ unique_boxes = << <<10, 10, 200, 100>>, <<10, 60, 200, 100>> >>

\* the clusters joined end to end
RECURSIVE Flatten(_)
Flatten(cls) == IF cls = <<>> THEN <<>> ELSE Head(cls) \o Flatten(Tail(cls))

\* the positions, in the joined list, at which a cluster begins
RECURSIVE ClusterStarts(_, _)
ClusterStarts(cls, offset) ==
    IF cls = <<>> THEN {}
    ELSE {offset + 1} \cup ClusterStarts(Tail(cls), offset + Len(Head(cls)))

\* C21: with the fragments in y-sorted order and L_1 = h_1, L_k = (L_(k-1) + h_k) / 2,
\* the k-th fragment (k >= 2) opens a new cluster iff
\* y_k - (y_(k-1) + h_(k-1)) > 1.5 * L_k: the estimate takes in the current fragment
\* before the comparison, is not reset at a new cluster, and the gap is measured against
\* the fragment immediately before in sorted order.
C21_SplitIffGapAboveRunningEstimate ==
    (pc = "returned" /\ path_taken = "assisted" /\ text_boxes_in # <<>>) =>
        /\ Flatten(clusters) = text_boxes
        /\ 1 \in ClusterStarts(clusters, 0)
        /\ \A k \in 2..Len(text_boxes) :
              LET L == RunningLineHeight(text_boxes, k)
                  gap == Y(text_boxes[k]) - (Y(text_boxes[k - 1]) + H(text_boxes[k - 1]))
              IN  k \in ClusterStarts(clusters, 0) <=> 2 * gap * L[2] > 3 * L[1]

\* a split decided by the updated estimate (gap 50 > 1.5 * 22.5, while 50 <= 1.5 * 35),
\* after an earlier split that did not reset the estimate
C21_Witness ==
    /\ pc = "returned"
    /\ path_taken = "assisted"
    /\ text_boxes_in = << <<100, 400, 61, 10>>, <<350, 310, 100, 40>>, <<30, 80, 200, 30>> >>
    /\ text_boxes = << <<30, 80, 200, 30>>, <<350, 310, 100, 40>>, <<100, 400, 61, 10>> >>
    /\ Len(clusters) = 3

\* C22: total absence of page images is the only terminal condition of analyze_pdf: with
\* no page image the run stops with an empty result and performs no detection or
\* extraction; with at least one page image the run ends with a result that contains
\* total_pages, pages and total_questions.
C22_OnlyAbsenceOfPagesIsTerminal ==
    /\ image_paths = <<>> =>
          /\ pc \in {"analyze_pdf", "done"}
          /\ pc = "done" => results = EmptyDict
          /\ path_taken = "none" /\ question_boxes = <<>> /\ question_images = <<>>
    /\ image_paths # <<>> =>
          /\ pc # "raised"
          /\ pc = "done" => DOMAIN results = {"total_pages", "pages", "total_questions"}

\* the file name of region `number` of page `page_number`, as the characters written
FileName(page_number, number) ==
    <<"extracted_questions/", "page_">> \o Digits(page_number)
    \o <<"_question_">> \o Digits(number) \o <<".png">>

\* every artifact path recorded so far, as the page and region positions holding it
RecordedArtifacts ==
    UNION { {<<k, j>> : j \in 1..Len(results.pages[k].questions)} :
              k \in 1..Len(results.pages) }

\* C23: extract_questions produces, for a readable page, exactly one artifact per
\* rectangle in list order; the path of the rectangle at 0-based index i on page p
\* depends only on (p, i + 1) and the mapping is injective, so within one analyze_pdf run
\* no two regions of any pages share an artifact path.
C23_OneArtifactPerRegionInjectivePaths ==
    /\ (pc = "record" /\ CurrentPage.readable) =>
          /\ Len(question_images) = Len(question_boxes)
          /\ \A k \in 1..Len(question_boxes) : question_images[k] = FileName(i, k)
    /\ \A p, q \in 1..12, a, b \in 1..12 :
          QuestionPath(p, a) = QuestionPath(q, b) => (p = q /\ a = b)
    /\ (pc \in {"detect", "extract", "record", "summarise", "done"} /\ i >= 1) =>
          \A r, t \in RecordedArtifacts :
              results.pages[r[1]].questions[r[2]].image_path
                  = results.pages[t[1]].questions[t[2]].image_path => r = t

C23_Witness ==
    /\ pc = "done"
    /\ image_paths # <<>>
    /\ Len(results.pages) = 2
    /\ Len(results.pages[1].questions) = 2
    /\ Len(results.pages[2].questions) = 2
    /\ results.pages[1].questions[2].image_path = FileName(1, 2)
    /\ results.pages[2].questions[1].image_path = FileName(2, 1)
    /\ QuestionPath(1, 11) # QuestionPath(11, 1)

\* C24: for every page processed by analyze_pdf the number of question records is the
\* number of computed boxes (image readable) or 0 (image unreadable), never more;
\* question_number runs 1, 2, ... without gaps and record j carries boxes[j], so
\* bounding_box is never null in a reachable result.
C24_RecordsMatchComputedBoxes ==
    (pc \in {"detect", "summarise", "done"} /\ image_paths # <<>>) =>
        /\ \A k \in 1..Len(results.pages) :
              LET records == results.pages[k].questions
                  computed == RegionsOfPageAlone(ocr_available, image_paths[k].image)
              IN  /\ Len(records) =
                        IF image_paths[k].image.readable THEN Len(computed) ELSE 0
                  /\ \A j \in 1..Len(records) :
                        /\ records[j].question_number = j
                        /\ records[j].bounding_box = computed[j]
                        /\ records[j].bounding_box # None
        /\ results.pages # <<>> =>
              \* the page just recorded, against the boxes detect_question_boundaries gave
              LET records == results.pages[Len(results.pages)].questions
              IN  /\ Len(records) <= Len(question_boxes)
                  /\ \A j \in 1..Len(records) : records[j].bounding_box = question_boxes[j]

C24_Witness ==
    /\ pc = "done"
    /\ image_paths # <<>>
    /\ Len(results.pages) = 2
    /\ ~image_paths[1].image.readable
    /\ results.pages[1].questions = <<>>
    /\ Len(results.pages[2].questions) = 3
    /\ results.pages[2].questions[3].question_number = 3
    /\ results.pages[2].questions[3].bounding_box = question_boxes[3]

\* how often the box b occurs in the list s
Occurrences(s, b) == Cardinality({k \in 1..Len(s) : s[k] = b})

\* C25: _cluster_text_boxes partitions its input: for a non-empty input every fragment
\* belongs to exactly one cluster, every cluster is non-empty, and each cluster is a
\* contiguous run of the y-sorted fragment sequence, the clusters in that order; an
\* empty input returns no region, and there are never more regions than fragments.
C25_ClustersPartitionSortedInput ==
    (pc = "returned" /\ path_taken = "assisted") =>
        /\ text_boxes_in # <<>> =>
              /\ \A c \in 1..Len(clusters) : Len(clusters[c]) >= 1
              /\ Flatten(clusters) = text_boxes
              /\ Len(Flatten(clusters)) = Len(text_boxes_in)
              /\ \A b \in Range(text_boxes_in) \cup Range(Flatten(clusters)) :
                    Occurrences(Flatten(clusters), b) = Occurrences(text_boxes_in, b)
              /\ \A k \in 1..(Len(text_boxes_in) - 1) :
                    Y(Flatten(clusters)[k]) <= Y(Flatten(clusters)[k + 1])
        /\ text_boxes_in = <<>> => (clusters = <<>> /\ question_boxes = <<>>)
        /\ Len(question_boxes) <= Len(text_boxes_in)

C25_Witness ==
    /\ pc = "returned"
    /\ path_taken = "assisted"
    /\ Len(text_boxes_in) = 3
    /\ Y(text_boxes_in[1]) > Y(text_boxes_in[2])
    /\ Len(clusters) = 2
    /\ Len(clusters[1]) = 2
    /\ Len(question_boxes) = 2

\* C26: the output of _remove_duplicate_boxes is a sub-list of its input: every returned
\* rectangle is an input rectangle with unchanged coordinates, no rectangle is returned
\* more often than it occurs in the input, and an input of length 0 or 1 is returned
\* unchanged.
C26_OutputIsSubListOfInput ==
    pc = "returned" =>
        /\ \A u \in Range(unique_boxes) :
              /\ u \in Range(boxes_in)
              /\ Occurrences(unique_boxes, u) <= Occurrences(boxes_in, u)
        /\ Len(unique_boxes) <= Len(boxes_in)
        /\ Len(boxes_in) <= 1 => (unique_boxes = boxes_in /\ boxes = boxes_in)

\* a rectangle of positive area given twice and kept once, next to one of no area
C26_Witness ==
    /\ pc = "returned"
    /\ overlap_threshold = <<3, 4>>
    /\ Len(boxes_in) = 3
    /\ \E z, b \in Range(boxes_in) :
          /\ Area(z) = 0 /\ Occurrences(boxes_in, z) = 1 /\ Occurrences(unique_boxes, z) = 1
          /\ Area(b) > 0 /\ Occurrences(boxes_in, b) = 2 /\ Occurrences(unique_boxes, b) = 1

\* C27: _remove_duplicate_boxes is idempotent: for every input list B and threshold t,
\* _remove_duplicate_boxes(_remove_duplicate_boxes(B, t), t) returns the same rectangles
\* in the same order as _remove_duplicate_boxes(B, t).
C27_Idempotent ==
    pc = "returned" =>
        /\ ~RemoveDuplicateBoxesRaises(unique_boxes)
        /\ RemoveDuplicateBoxes(unique_boxes) = unique_boxes
        /\ BoxesAfterDedup(unique_boxes) = unique_boxes

C27_Witness ==
    /\ pc = "returned"
    /\ overlap_threshold = <<3, 4>>
    /\ Len(boxes_in) = 3
    /\ Len(unique_boxes) = 2
    /\ Area(boxes_in[1]) < Area(boxes_in[2])
    /\ \E a, b \in Range(unique_boxes) : a # b /\ CommonArea(a, b) > 0
    /\ RemoveDuplicateBoxes(unique_boxes) = unique_boxes

\* C29: _remove_duplicate_boxes never divides by zero: for rectangles with integer
\* coordinates and width, height >= 0, rectangles of no area included, the ratio
\* intersection / min_area is evaluated only when both rectangles have positive area, and
\* a rectangle of no area is never judged a duplicate.
C29_NoDivisionByZero ==
    /\ pc # "raised"
    /\ \A a, b \in Range(boxes_in) :
          Intersects(a, b) => (Area(a) > 0 /\ Area(b) > 0 /\ Intersection(a, b) > 0)
    /\ pc = "returned" =>
          \A z \in Range(boxes_in) :
              Area(z) = 0 => Occurrences(unique_boxes, z) = Occurrences(boxes_in, z)

\* a rectangle with a zero-width and a zero-height rectangle inside it
C29_Witness ==
    /\ pc = "returned"
    /\ overlap_threshold = <<0, 1>>
    /\ boxes_in = << <<50, 50, 0, 40>>, <<20, 30, 50, 0>>, <<10, 10, 200, 100>> >>
    /\ unique_boxes = << <<10, 10, 200, 100>>, <<50, 50, 0, 40>>, <<20, 30, 50, 0>> >>

DistinctTops(bs) == \A a, b \in 1..Len(bs) : a # b => Y(bs[a]) # Y(bs[b])

\* C30: for input fragments whose top y coordinates are pairwise distinct, the region
\* list returned by _cluster_text_boxes is the same for every permutation of the input
\* list; the only effect on the caller's list is that it is reordered in place by top y,
\* with no fragment added, removed or altered.
C30_OrderOfInputIrrelevant ==
    (pc = "returned" /\ path_taken = "assisted") =>
        /\ DistinctTops(text_boxes_in) =>
              \A p \in PermutationsOf(text_boxes_in) :
                  /\ ClusterTextBoxes(p, image_size[1], image_size[2]) = question_boxes
                  /\ TextBoxesAfterCluster(p) = text_boxes
        /\ Len(text_boxes) = Len(text_boxes_in)
        /\ \A b \in Range(text_boxes_in) \cup Range(text_boxes) :
              Occurrences(text_boxes, b) = Occurrences(text_boxes_in, b)
        /\ \A k \in 1..(Len(text_boxes) - 1) : Y(text_boxes[k]) <= Y(text_boxes[k + 1])

C30_Witness ==
    /\ pc = "returned"
    /\ path_taken = "assisted"
    /\ Len(text_boxes_in) = 3
    /\ DistinctTops(text_boxes_in)
    /\ Y(text_boxes_in[1]) > Y(text_boxes_in[2])
    /\ Y(text_boxes_in[2]) > Y(text_boxes_in[3])
    /\ text_boxes = <<text_boxes_in[3], text_boxes_in[2], text_boxes_in[1]>>
    /\ Len(question_boxes) = 2

\* C28: OCRProcessor.batch_process returns exactly one result per input image path, in
\* input order; when process_image raises for a path, the entry at that position is a
\* record with that image_path, the error text and success = False, and every later path
\* is still processed.
C28_OneResultPerPathInOrder ==
    /\ pc \in {"batch_process", "returned"}
    /\ Len(results) = i - 1
    /\ pc = "returned" => Len(results) = Len(image_paths)
    /\ \A k \in 1..Len(results) :
          /\ results[k].image_path = image_paths[k].path
          /\ IF image_paths[k].image.ocr = "raise"
             THEN /\ DOMAIN results[k] = {"image_path", "error", "success"}
                  /\ results[k].error = image_paths[k].image.error
                  /\ results[k].success = FALSE
             ELSE "error" \notin DOMAIN results[k]

C28_Witness ==
    /\ pc = "returned"
    /\ Len(image_paths) = 3
    /\ image_paths[1].image.ocr = "raise"
    /\ image_paths[2].image.ocr = "ok"
    /\ image_paths[3] = image_paths[1]
    /\ results[1] = [image_path |-> image_paths[1].path,
                     error |-> image_paths[1].image.error, success |-> FALSE]
    /\ results[2].processing_mode = "combined"
    /\ results[3] = results[1]

====
